---- MODULE Spec2Model ----
(***************************************************************************)
(* A model of the glibc heap explorer of pwnlib.heap:                      *)
(*   - BinParser._parse_from_bin_entry, the walk of one doubly-linked bin  *)
(*     (src/pwnlib/heap/bins/bin_parser.py), one loop iteration per step;  *)
(*   - the HeapExplorer facade (src/pwnlib/heap/heap_explorer.py): its     *)
(*     constructor with the tcache detection, and its accessors.           *)
(* The parsers the facade is wired to and that are not part of the source  *)
(* tree at hand (chunk, malloc state, heap, fast bin, tcache and arena     *)
(* parsers, the bin factory) are modelled from their specification.        *)
(***************************************************************************)
EXTENDS Integers, Sequences, FiniteSets, TLC

VARIABLES
    P,                \* pointer size of the target, 4 or 8
    libc,             \* minor number of the target's libc 2.x
    mem,              \* target memory seen as chunks: address -> [ok, fd, bk]
    ring,             \* target memory: the `next` field of each malloc state
    binsel,           \* target memory: which bins of a malloc state hold a chunk
    heap_raw,         \* target memory: raw size fields of the main heap's chunks
    constructed,      \* HeapExplorer.__init__ has completed
    tcaches_enabled,  \* HeapExplorer.tcaches_enabled
    tcache_parser,    \* HeapExplorer._tcache_parser: "none", "enabled", "disabled"
    pc,               \* position of the running call: "idle", "loop", "ret"
    op,               \* the operation called last
    arena_index,      \* its arena_index argument, -1 when it has none
    todo,             \* bin entries the running call has still to walk
    bins,             \* bins the running call has built
    malloc_states,    \* malloc states the running call has parsed
    bin_entry,        \* _parse_from_bin_entry: bin_entry
    chunks,           \* _parse_from_bin_entry: chunks
    addresses,        \* _parse_from_bin_entry: addresses
    current_address,  \* _parse_from_bin_entry: current_address
    reads,            \* history: addresses handed to parse_from_address by the walk
    result,           \* value returned by the last call
    raised            \* exception the last call ended with, "none" if it returned

vars == <<P, libc, mem, ring, binsel, heap_raw, constructed, tcaches_enabled,
          tcache_parser, pc, op, arena_index, todo, bins, malloc_states, bin_entry, chunks,
          addresses,
          current_address, reads, result, raised>>

target == <<P, libc, mem, ring, binsel, heap_raw>>
facade == <<constructed, tcaches_enabled, tcache_parser>>
walk == <<bin_entry, chunks, addresses, current_address>>

----------------------------------------------------------------------------
(* Bounds of the model. *)

\* number of chunk addresses of the target besides the bin heads
NChunks == 2
\* number of malloc state addresses a `next` field can hold
NArenas == 2
\* number of small bins and of large bins kept of a malloc state
NSmallBins == 2
NLargeBins == 2

----------------------------------------------------------------------------
(* The address space. Addresses keep the low 16 bits of the addresses of   *)
(* the examples in the documentation of HeapExplorer.                      *)

\* address of the main arena's malloc state (0xbc40)
MainArena == 48192
\* offset of the unsorted bin's (fd, bk) pair in a malloc state (0x70)
BinsOffset == 112
\* address of the first chunk address of the model (0xc000)
ChunkBase == 49152

PointerSizes == {4, 8}

ArenaAddr(k) == IF k = 0 THEN MainArena ELSE MainArena - k * 4096

ArenaAddrs == {ArenaAddr(k) : k \in 0..(NArenas - 1)}

\* Chunk addresses come in pairs a, a XOR 12, so that the demangled form of
\* a pointer stored in a chunk of the model is again an address of the model.
ChunkAddr(i) == ChunkBase + 32 * ((i - 1) \div 2) + 12 * ((i - 1) % 2)

ChunkAddrs == {ChunkAddr(i) : i \in 1..NChunks}

\* address of the bin entry of the main arena's unsorted bin
BinAddr == MainArena + BinsOffset

\* addresses of the bin memory of SpecBin for pointer size p
Addrs(p) == {BinAddr - 2 * p, BinAddr} \cup ChunkAddrs

Unreadable == [ok |-> FALSE, fd |-> 0, bk |-> 0]

\* the cells of the bin memory of SpecBin: the walk never looks at bk, which
\* these cells leave at 0
Cells(p) == {Unreadable} \cup {[ok |-> TRUE, fd |-> a, bk |-> 0] : a \in Addrs(p)}

----------------------------------------------------------------------------
(* MallocChunkParser.parse_from_address, from its specification:           *)
(* reads the chunk header at an address, fails when the range is not       *)
(* readable.                                                               *)

RECURSIVE XOR(_, _)
XOR(a, b) ==
    IF a = 0 THEN b
    ELSE IF b = 0 THEN a
    ELSE (((a % 2) + (b % 2)) % 2) + 2 * XOR(a \div 2, b \div 2)

Readable(m, a) == a \in DOMAIN m /\ m[a].ok

demangle(ptr, loc) == XOR(ptr, loc \div 4096)

parse_from_address(m, p, a) ==
    [address |-> a,
     fd |-> m[a].fd,
     bk |-> m[a].bk,
     fd_demangled |-> demangle(m[a].fd, a + 2 * p)]

----------------------------------------------------------------------------
(* Bin, BinEntry (glmalloc/bins/bin.py) and the bin factory.               *)

BinEntry(kind, address, fd) == [kind |-> kind, address |-> address, fd |-> fd]

Bin_init(entry, malloc_chunks, safe_link) ==
    [bin_entry |-> entry, malloc_chunks |-> malloc_chunks, safe_link |-> safe_link]

\* BinFactory.create builds the UnsortedBin, SmallBin or LargeBin of the
\* entry with the default safe_link of Bin.__init__.
BinFactory_create(entry, malloc_chunks) == Bin_init(entry, malloc_chunks, FALSE)

NoEntry == BinEntry("none", 0, 0)

Range(s) == {s[i] : i \in 1..Len(s)}

----------------------------------------------------------------------------
(* BinParser._parse_from_bin_entry (bins/bin_parser.py, lines 65-82).      *)

\* line 67: base_bin_address = bin_entry.address - (self._pointer_size*2)
base_bin_address_no_offset(entry, p) == entry.address

base_bin_address_one_pointer(entry, p) == entry.address - p

base_bin_address(entry, p) == entry.address - (p * 2)

\* line 68: addresses = [base_bin_address]
initial_addresses_empty(base) == <<>>

initial_addresses(base) == <<base>>

\* line 70: while current_address not in addresses
loop_condition_head_only(cur, addrs) == cur # addrs[1]

loop_condition(cur, addrs) == cur \notin Range(addrs)

\* line 77: current_address = chunk.fd
next_address_demangled(chunk, version) ==
    IF version >= 32 THEN chunk.fd_demangled ELSE chunk.fd

next_address_bk(chunk, version) == chunk.bk

next_address(chunk, version) == chunk.fd

\* lines 66-69: the state of the walk before the first test of the loop
parse_begin_keeps_addresses(entry) ==
    /\ bin_entry' = entry
    /\ chunks' = <<>>
    /\ addresses' = Append(addresses, base_bin_address(entry, P))
    /\ current_address' = entry.fd

parse_begin(entry) ==
    /\ bin_entry' = entry
    /\ chunks' = <<>>
    /\ addresses' = initial_addresses(base_bin_address(entry, P))
    /\ current_address' = entry.fd

\* lines 70-77: one iteration whose chunk parse succeeds
LoopParse_unrecorded ==
    /\ pc = "loop"
    /\ loop_condition(current_address, addresses)
    /\ Readable(mem, current_address)
    /\ reads' = Append(reads, current_address)
    /\ LET chunk == parse_from_address(mem, P, current_address)
       IN /\ chunks' = Append(chunks, chunk)
          /\ current_address' = next_address(chunk, libc)
    /\ UNCHANGED <<target, facade, pc, op, arena_index, todo, bins, malloc_states,
                   bin_entry, addresses, result, raised>>

LoopParse ==
    /\ pc = "loop"
    /\ loop_condition(current_address, addresses)
    /\ Readable(mem, current_address)
    /\ addresses' = Append(addresses, current_address)
    /\ reads' = Append(reads, current_address)
    /\ LET chunk == parse_from_address(mem, P, current_address)
       IN /\ chunks' = Append(chunks, chunk)
          /\ current_address' = next_address(chunk, libc)
    /\ UNCHANGED <<target, facade, pc, op, arena_index, todo, bins, malloc_states,
                   bin_entry, result, raised>>

\* lines 70-73, 78-80: one iteration whose chunk parse fails with OSError
LoopBreak_fabricates ==
    /\ pc = "loop"
    /\ loop_condition(current_address, addresses)
    /\ ~Readable(mem, current_address)
    /\ addresses' = Append(addresses, current_address)
    /\ reads' = Append(reads, current_address)
    /\ chunks' = Append(chunks, [address |-> current_address, fd |-> 0,
                                 bk |-> 0, fd_demangled |-> 0])
    /\ pc' = "ret"
    /\ UNCHANGED <<target, facade, op, arena_index, todo, bins, malloc_states, bin_entry,
                   current_address, result, raised>>

LoopBreak_unlinks ==
    /\ pc = "loop"
    /\ loop_condition(current_address, addresses)
    /\ ~Readable(mem, current_address)
    /\ addresses' = Append(addresses, current_address)
    /\ reads' = Append(reads, current_address)
    /\ pc' = "ret"
    /\ mem' = [a \in DOMAIN mem |->
                  IF chunks # <<>> /\ a = chunks[Len(chunks)].address
                  THEN [ok |-> TRUE, fd |-> addresses[1], bk |-> 0] ELSE mem[a]]
    /\ UNCHANGED <<P, libc, ring, binsel, heap_raw, facade, op, arena_index, todo, bins,
                   malloc_states, bin_entry, chunks, current_address, result,
                   raised>>

LoopBreak ==
    /\ pc = "loop"
    /\ loop_condition(current_address, addresses)
    /\ ~Readable(mem, current_address)
    /\ addresses' = Append(addresses, current_address)
    /\ reads' = Append(reads, current_address)
    /\ pc' = "ret"
    /\ UNCHANGED <<target, facade, op, arena_index, todo, bins, malloc_states, bin_entry,
                   chunks, current_address, result, raised>>

----------------------------------------------------------------------------
(* The parsers the facade is wired to, from their specification.           *)

\* MallocStateParser: the bin entry of bin i (1 the unsorted bin) of the
\* malloc state at a. Its address is the location of the bin's (fd, bk)
\* pair, as in the output documented in HeapExplorer.arena, where the walk
\* of the unsorted bin ends at the location of its pair minus 0x10.
bin_entry_address(a, i, p) == a + BinsOffset + (i - 1) * 2 * p

\* the fd cell of a bin: the bin's own head when the bin is empty
bin_entry_fd(a, i, p, sel) ==
    IF sel = "chunk" THEN ChunkAddr(1) ELSE bin_entry_address(a, i, p) - 2 * p

MallocState(a, rng, p, sel) ==
    [address |-> a,
     next |-> rng[a],
     unsorted_bin |->
         BinEntry("unsorted", bin_entry_address(a, 1, p), bin_entry_fd(a, 1, p, sel)),
     small_bins |->
         [k \in 1..NSmallBins |->
             BinEntry("small", bin_entry_address(a, 1 + k, p),
                      bin_entry_fd(a, 1 + k, p, sel))],
     large_bins |->
         [k \in 1..NLargeBins |->
             BinEntry("large", bin_entry_address(a, 1 + NSmallBins + k, p),
                      bin_entry_fd(a, 1 + NSmallBins + k, p, sel))]]

\* MallocStateParser.parse_all_from_main_malloc_state_address: follows `next`
\* from the main arena until a `next` already observed; ring_walk gives the
\* addresses of the malloc states parsed, in order.
RECURSIVE ring_walk(_, _, _)
ring_walk(a, seen, rng) ==
    IF a \in seen THEN <<>>
    ELSE <<a>> \o ring_walk(rng[a], seen \cup {a}, rng)

parse_all_from_main_malloc_state_address(main, rng, p, sel) ==
    LET as == ring_walk(main, {}, rng)
    IN [k \in 1..Len(as) |-> MallocState(as[k], rng, p, sel)]

\* MallocChunkParser: size is raw_size without its three flag bits
chunk_size(raw_size) == raw_size - (raw_size % 8)

\* HeapParser.parse_from_malloc_state: the chunks of the arena's heap
HeapParser_parse(ms, raw) ==
    [kind |-> "Heap",
     arena |-> ms.address,
     chunks |-> IF ms.address = MainArena
                THEN [k \in 1..Len(raw) |-> [size |-> chunk_size(raw[k])]]
                ELSE <<>>]

\* number of fast bins of a malloc state: fastbinsY [0] .. [9]
NFASTBINS == 10

\* size of the chunks of the fast bin of index k, as listed for fastbinsY in
\* the documentation of HeapExplorer.malloc_state: 0x20, 0x30, .. 0xb0 on
\* 64-bit
fast_bin_chunks_size_from_one(k, p) == 2 * p + k * 2 * p

fast_bin_chunks_size(k, p) == 2 * p * (k + 2)

\* FastBinParser.parse_all_from_malloc_state
FastBinParser_parse(ms) ==
    [kind |-> "FastBins",
     arena |-> ms.address,
     bins |-> [i \in 1..NFASTBINS |->
                  [chunks_size |->
                       fast_bin_chunks_size(i - 1, P),
                   safe_link |-> TRUE]]]

\* EnabledTcacheParser / DisabledTcacheParser.parse_all_from_malloc_state:
\* the disabled parser fails with NoTcacheError
TcacheParser_raises(parser) ==
    IF parser = "enabled" THEN "none" ELSE "NoTcacheError"

TcacheParser_parse(ms) == [kind |-> "Tcaches", arena |-> ms.address]

\* ArenaParser.parse_from_malloc_state: the tcache is left out when the
\* tcache parser fails with NoTcacheError
Arena(ms, raw, parser, bs) ==
    [kind |-> "Arena",
     malloc_state |-> ms,
     heap |-> HeapParser_parse(ms, raw),
     tcaches |-> IF TcacheParser_raises(parser) = "none"
                 THEN TcacheParser_parse(ms) ELSE [kind |-> "None"],
     fast_bins |-> FastBinParser_parse(ms),
     unsorted_bin |-> bs[1],
     small_bins |-> SubSeq(bs, 2, 1 + NSmallBins),
     large_bins |-> SubSeq(bs, 2 + NSmallBins, 1 + NSmallBins + NLargeBins)]

\* the bin entries a call walks in one malloc state
EntriesOf(sel, ms) ==
    CASE sel = "unsorted" -> <<ms.unsorted_bin>>
      [] sel = "small" -> ms.small_bins
      [] sel = "large" -> ms.large_bins
      [] OTHER -> <<ms.unsorted_bin>> \o ms.small_bins \o ms.large_bins

RECURSIVE AllEntries(_, _)
AllEntries(sel, mss) ==
    IF mss = <<>> THEN <<>>
    ELSE EntriesOf(sel, Head(mss)) \o AllEntries(sel, Tail(mss))

Group(bs, n, count) == [k \in 1..count |-> SubSeq(bs, (k - 1) * n + 1, k * n)]

\* The value a call returns once the bins of all its entries are built.
Shape(o, mss, bs, parser) ==
    CASE o \in {"_parse_from_bin_entry", "unsorted_bin",
                "parse_unsorted_bin_from_malloc_state"} -> bs[1]
      [] o \in {"small_bins", "large_bins", "all_arenas_unsorted_bins",
                "parse_small_bins_from_malloc_state",
                "parse_large_bins_from_malloc_state"} -> bs
      [] o = "all_arenas_small_bins" -> Group(bs, NSmallBins, Len(mss))
      [] o = "all_arenas_large_bins" -> Group(bs, NLargeBins, Len(mss))
      [] o = "arena" -> Arena(mss[1], heap_raw, parser, bs)
      [] OTHER ->
           LET n == 1 + NSmallBins + NLargeBins
           IN [k \in 1..Len(mss) |->
                  Arena(mss[k], heap_raw, parser, SubSeq(bs, (k - 1) * n + 1, k * n))]

\* line 82: the loop is left; the bin is built and, when the call has further
\* bin entries to walk, the walk of the next one begins
Return ==
    /\ \/ pc = "ret"
       \/ pc = "loop" /\ ~loop_condition(current_address, addresses)
    /\ LET bin == BinFactory_create(bin_entry, chunks)
       IN /\ bins' = Append(bins, bin)
          /\ IF todo = <<>>
             THEN /\ pc' = "idle"
                  /\ result' = Shape(op, malloc_states, bins', tcache_parser)
                  /\ UNCHANGED <<walk, todo>>
             ELSE /\ pc' = "loop"
                  /\ parse_begin(Head(todo))
                  /\ todo' = Tail(todo)
                  /\ UNCHANGED result
    /\ UNCHANGED <<target, facade, op, arena_index, malloc_states, reads, raised>>

\* A call of _parse_from_bin_entry with the entry of an unsorted, small or
\* large bin
parse_from_bin_entry ==
    /\ pc = "idle"
    /\ op = "none"
    /\ \E kind \in {"unsorted", "small", "large"}, fd \in Addrs(P) :
           parse_begin(BinEntry(kind, BinAddr, fd))
    /\ pc' = "loop"
    /\ op' = "_parse_from_bin_entry"
    /\ arena_index' = -1
    /\ todo' = <<>>
    /\ bins' = <<>>
    /\ reads' = <<>>
    /\ result' = "none"
    /\ raised' = "none"
    /\ UNCHANGED <<target, facade, malloc_states>>

----------------------------------------------------------------------------
(* HeapExplorer (heap_explorer.py).                                        *)

\* the number of bins of a tcache: the 64 of line 93
TCACHE_MAX_BINS == 64

\* glibc's size of the chunks of the tcache bin of index i:
\* ((i * 2P) + MINSIZE + (2P - 1)) & ~(2P - 1), with MINSIZE = 4P
glibc_tcache_chunk_size(i, p) ==
    LET x == (i * 2 * p) + 4 * p + (2 * p - 1)
    IN x - (x % (2 * p))

\* line 93: tcache_chunk_size = self._pointer_size * 64 + 0x50
tcache_chunk_size_doubled(p) == 2 * p * 64 + 80

tcache_chunk_size_max_bins(p) == glibc_tcache_chunk_size(TCACHE_MAX_BINS, p)

tcache_chunk_size(p) == p * 64 + 80

\* lines 175-190
all_arenas_malloc_states_from_next ==
    parse_all_from_main_malloc_state_address(ring[MainArena], ring, P, binsel)

all_arenas_malloc_states ==
    parse_all_from_main_malloc_state_address(MainArena, ring, P, binsel)

\* lines 89-94: _are_tcaches_enabled; chunks[0] of a heap without chunks
\* fails with IndexError
are_tcaches_enabled(version, p, heap) ==
    IF version < 26
    THEN [raised |-> "none", value |-> FALSE]
    ELSE IF heap.chunks = <<>>
    THEN [raised |-> "IndexError", value |-> FALSE]
    ELSE [raised |-> "none", value |-> tcache_chunk_size(p) = heap.chunks[1].size]

\* a call that ends without walking a bin
Finish(o, val, exc) ==
    /\ op' = o
    /\ result' = val
    /\ raised' = exc
    /\ pc' = "idle"
    /\ todo' = <<>>
    /\ bins' = <<>>
    /\ malloc_states' = <<>>
    /\ bin_entry' = NoEntry
    /\ chunks' = <<>>
    /\ addresses' = <<>>
    /\ current_address' = 0
    /\ reads' = <<>>
    /\ UNCHANGED target

\* a call that goes on with the walk of the bin entries of malloc states
StartWalk(o, mss, entries) ==
    /\ op' = o
    /\ result' = "none"
    /\ raised' = "none"
    /\ pc' = "loop"
    /\ malloc_states' = mss
    /\ parse_begin(Head(entries))
    /\ todo' = Tail(entries)
    /\ bins' = <<>>
    /\ reads' = <<>>
    /\ UNCHANGED target

\* lines 53-87: __init__
HeapExplorer_init ==
    /\ pc = "idle"
    /\ ~constructed
    /\ arena_index' = -1
    /\ LET heap == HeapParser_parse(all_arenas_malloc_states[1], heap_raw)
           enabled == are_tcaches_enabled(libc, P, heap)
       IN IF enabled.raised # "none"
          THEN /\ Finish("__init__", "none", enabled.raised)
               /\ UNCHANGED facade
          ELSE /\ Finish("__init__", "none", "none")
               /\ constructed' = TRUE
               /\ tcaches_enabled' = enabled.value
               /\ tcache_parser' = IF enabled.value THEN "enabled" ELSE "disabled"

Ready == pc = "idle" /\ constructed

\* line 173: all_arenas_malloc_states()[arena_index] fails with IndexError
\* unless arena_index is an index of the list
Indexed(i) == i < Len(ring_walk(MainArena, {}, ring))

\* lines 96-109
arenas_count ==
    /\ Ready
    /\ arena_index' = -1
    /\ Finish("arenas_count", Len(all_arenas_malloc_states), "none")
    /\ UNCHANGED facade

\* lines 111-173
malloc_state(i) ==
    /\ Ready
    /\ arena_index' = i
    /\ IF Indexed(i)
       THEN Finish("malloc_state", all_arenas_malloc_states[i + 1], "none")
       ELSE Finish("malloc_state", "none", "IndexError")
    /\ UNCHANGED facade

\* lines 175-190, called on the facade
all_malloc_states ==
    /\ Ready
    /\ arena_index' = -1
    /\ Finish("all_arenas_malloc_states", all_arenas_malloc_states, "none")
    /\ UNCHANGED facade

\* lines 192-262
heap(i) ==
    /\ Ready
    /\ arena_index' = i
    /\ IF Indexed(i)
       THEN Finish("heap", HeapParser_parse(all_arenas_malloc_states[i + 1], heap_raw),
                   "none")
       ELSE Finish("heap", "none", "IndexError")
    /\ UNCHANGED facade

\* lines 264-284
all_arenas_heaps ==
    /\ Ready
    /\ arena_index' = -1
    /\ LET mss == all_arenas_malloc_states
       IN Finish("all_arenas_heaps",
                 [k \in 1..Len(mss) |-> HeapParser_parse(mss[k], heap_raw)], "none")
    /\ UNCHANGED facade

\* lines 286-321, 346-369, 393-416: unsorted_bin, small_bins, large_bins
bins_of_main(sel, i) ==
    /\ Ready
    /\ arena_index' = i
    /\ LET o == IF sel = "unsorted" THEN "unsorted_bin" ELSE sel \o "_bins"
       IN IF Indexed(i)
          THEN LET ms == all_arenas_malloc_states[1]
               IN StartWalk(o, <<ms>>, EntriesOf(sel, ms))
          ELSE Finish(o, "none", "IndexError")
    /\ UNCHANGED facade

bins_of(sel, i) ==
    /\ Ready
    /\ arena_index' = i
    /\ LET o == IF sel = "unsorted" THEN "unsorted_bin" ELSE sel \o "_bins"
       IN IF Indexed(i)
          THEN LET ms == all_arenas_malloc_states[i + 1]
               IN StartWalk(o, <<ms>>, EntriesOf(sel, ms))
          ELSE Finish(o, "none", "IndexError")
    /\ UNCHANGED facade

\* lines 323-344, 371-391, 418-439: the all_arenas forms
all_arenas_bins_of(sel) ==
    /\ Ready
    /\ arena_index' = -1
    /\ LET mss == all_arenas_malloc_states
       IN StartWalk("all_arenas_" \o sel \o "_bins", mss, AllEntries(sel, mss))
    /\ UNCHANGED facade

\* lines 441-465
fast_bins(i) ==
    /\ Ready
    /\ arena_index' = i
    /\ IF Indexed(i)
       THEN Finish("fast_bins", FastBinParser_parse(all_arenas_malloc_states[i + 1]),
                   "none")
       ELSE Finish("fast_bins", "none", "IndexError")
    /\ UNCHANGED facade

\* lines 467-487
all_arenas_fast_bins ==
    /\ Ready
    /\ arena_index' = -1
    /\ LET mss == all_arenas_malloc_states
       IN Finish("all_arenas_fast_bins",
                 [k \in 1..Len(mss) |-> FastBinParser_parse(mss[k])], "none")
    /\ UNCHANGED facade

\* lines 489-519
tcaches_unguarded(i) ==
    /\ Ready
    /\ arena_index' = i
    /\ IF ~Indexed(i)
       THEN Finish("tcaches", "none", "IndexError")
       ELSE Finish("tcaches", TcacheParser_parse(all_arenas_malloc_states[i + 1]),
                   "none")
    /\ UNCHANGED facade

tcaches_redetects(i) ==
    /\ Ready
    /\ arena_index' = i
    /\ IF ~are_tcaches_enabled(libc, P,
               HeapParser_parse(all_arenas_malloc_states[1], heap_raw)).value
       THEN Finish("tcaches", "none", "NoTcacheError")
       ELSE IF ~Indexed(i)
       THEN Finish("tcaches", "none", "IndexError")
       ELSE Finish("tcaches", TcacheParser_parse(all_arenas_malloc_states[i + 1]),
                   "none")
    /\ UNCHANGED facade

tcaches(i) ==
    /\ Ready
    /\ arena_index' = i
    /\ IF ~tcaches_enabled
       THEN Finish("tcaches", "none", "NoTcacheError")
       ELSE IF ~Indexed(i)
       THEN Finish("tcaches", "none", "IndexError")
       ELSE IF TcacheParser_raises(tcache_parser) # "none"
       THEN Finish("tcaches", "none", TcacheParser_raises(tcache_parser))
       ELSE Finish("tcaches", TcacheParser_parse(all_arenas_malloc_states[i + 1]),
                   "none")
    /\ UNCHANGED facade

\* lines 521-548
all_arenas_tcaches ==
    /\ Ready
    /\ arena_index' = -1
    /\ LET mss == all_arenas_malloc_states
       IN IF ~tcaches_enabled
          THEN Finish("all_arenas_tcaches", "none", "NoTcacheError")
          ELSE IF TcacheParser_raises(tcache_parser) # "none"
          THEN Finish("all_arenas_tcaches", "none", TcacheParser_raises(tcache_parser))
          ELSE Finish("all_arenas_tcaches",
                      [k \in 1..Len(mss) |-> TcacheParser_parse(mss[k])], "none")
    /\ UNCHANGED facade

\* lines 550-675
arena_guarded(i) ==
    /\ Ready
    /\ arena_index' = i
    /\ IF ~tcaches_enabled
       THEN Finish("arena", "none", "NoTcacheError")
       ELSE IF Indexed(i)
       THEN LET ms == all_arenas_malloc_states[i + 1]
            IN StartWalk("arena", <<ms>>, EntriesOf("all", ms))
       ELSE Finish("arena", "none", "IndexError")
    /\ UNCHANGED facade

arena(i) ==
    /\ Ready
    /\ arena_index' = i
    /\ IF Indexed(i)
       THEN LET ms == all_arenas_malloc_states[i + 1]
            IN StartWalk("arena", <<ms>>, EntriesOf("all", ms))
       ELSE Finish("arena", "none", "IndexError")
    /\ UNCHANGED facade

\* lines 677-693
all_arenas ==
    /\ Ready
    /\ arena_index' = -1
    /\ LET mss == all_arenas_malloc_states
       IN StartWalk("all_arenas", mss, AllEntries("all", mss))
    /\ UNCHANGED facade

----------------------------------------------------------------------------
(* The targets of SpecFacade.                                              *)

\* raw size fields of the first chunk of the main heap:
\* around pointer_size * 64 + 0x50, around 2 * pointer_size * 64 + 0x50, and
\* glibc's tcache_chunk_size(TCACHE_MAX_BINS)
RawSizes(p) ==
    {p * 64 + 73, p * 64 + 81, p * 64 + 88, 2 * p * 64 + 81,
     glibc_tcache_chunk_size(TCACHE_MAX_BINS, p) + 1}

HeapImages(p) == {<<>>} \cup {<<r>> : r \in RawSizes(p)}

\* the bin memory: the first chunk points to the second one, which cannot
\* be read
FacadeMem(p) ==
    [a \in Addrs(p) |->
        IF a = ChunkAddr(1) THEN [ok |-> TRUE, fd |-> ChunkAddr(2), bk |-> 0]
        ELSE Unreadable]

\* the arena indexes of the calls: every index of a target with NArenas
\* arenas, the last ones out of range on a target with fewer arenas
ArenaIndexes == 0..(NArenas - 1)

\* The enumeration reads the malloc states it reaches from the main arena
\* only: the `next` field of the other ones is fixed.
Rings ==
    {r \in [ArenaAddrs -> ArenaAddrs] :
        \A a \in ArenaAddrs \ Range(ring_walk(MainArena, {}, r)) : r[a] = a}

InitFacade ==
    /\ P \in PointerSizes
    /\ libc \in {25, 26}
    /\ mem = FacadeMem(P)
    /\ ring \in Rings
    /\ binsel \in {"empty", "chunk"}
    /\ heap_raw \in HeapImages(P)
    /\ constructed = FALSE
    /\ tcaches_enabled = FALSE
    /\ tcache_parser = "none"
    /\ pc = "idle"
    /\ op = "none"
    /\ arena_index = -1
    /\ todo = <<>>
    /\ bins = <<>>
    /\ malloc_states = <<>>
    /\ bin_entry = NoEntry
    /\ chunks = <<>>
    /\ addresses = <<>>
    /\ current_address = 0
    /\ reads = <<>>
    /\ result = "none"
    /\ raised = "none"

NextFacade ==
    \/ HeapExplorer_init
    \/ arenas_count
    \/ all_malloc_states
    \/ all_arenas_heaps
    \/ all_arenas_fast_bins
    \/ all_arenas_tcaches
    \/ all_arenas
    \/ \E i \in ArenaIndexes : malloc_state(i)
    \/ \E i \in ArenaIndexes : heap(i)
    \/ \E i \in ArenaIndexes : fast_bins(i)
    \/ \E i \in ArenaIndexes : tcaches(i)
    \/ \E i \in ArenaIndexes : arena(i)
    \/ \E i \in ArenaIndexes, sel \in {"unsorted", "small", "large"} : bins_of(sel, i)
    \/ \E sel \in {"unsorted", "small", "large"} : all_arenas_bins_of(sel)
    \/ LoopParse
    \/ LoopBreak
    \/ Return

SpecFacade == InitFacade /\ [][NextFacade]_vars

----------------------------------------------------------------------------
(* The targets of SpecHeapLive: a facade on a target with one arena that   *)
(* goes on running, whose main heap changes after the facade is built.     *)

\* the target allocates or frees: the chunks of its main heap change
TargetChangesHeap ==
    /\ constructed
    /\ \E h \in HeapImages(P) :
           /\ h # heap_raw
           /\ heap_raw' = h
    /\ UNCHANGED <<P, libc, mem, ring, binsel, facade, walk, pc, op, arena_index,
                   todo, bins, malloc_states, reads, result, raised>>

InitHeapLive ==
    /\ P \in PointerSizes
    /\ libc \in {25, 26, 32}
    /\ mem = FacadeMem(P)
    /\ ring = [a \in ArenaAddrs |-> a]
    /\ binsel = "chunk"
    /\ heap_raw \in HeapImages(P)
    /\ constructed = FALSE
    /\ tcaches_enabled = FALSE
    /\ tcache_parser = "none"
    /\ pc = "idle"
    /\ op = "none"
    /\ arena_index = -1
    /\ todo = <<>>
    /\ bins = <<>>
    /\ malloc_states = <<>>
    /\ bin_entry = NoEntry
    /\ chunks = <<>>
    /\ addresses = <<>>
    /\ current_address = 0
    /\ reads = <<>>
    /\ result = "none"
    /\ raised = "none"

NextHeapLive ==
    \/ NextFacade
    \/ TargetChangesHeap

SpecHeapLive == InitHeapLive /\ [][NextHeapLive]_vars

----------------------------------------------------------------------------
(* The targets of SpecBin: every bin memory over the addresses of the model. *)

InitBin ==
    /\ P \in PointerSizes
    /\ libc \in {31, 32}
    /\ mem \in [Addrs(P) -> Cells(P)]
    /\ ring = [a \in {MainArena} |-> MainArena]
    /\ binsel = "none"
    /\ heap_raw = <<>>
    /\ constructed = FALSE
    /\ tcaches_enabled = FALSE
    /\ tcache_parser = "none"
    /\ pc = "idle"
    /\ op = "none"
    /\ arena_index = -1
    /\ todo = <<>>
    /\ bins = <<>>
    /\ bin_entry = NoEntry
    /\ chunks = <<>>
    /\ addresses = <<>>
    /\ current_address = 0
    /\ reads = <<>>
    /\ malloc_states = <<>>
    /\ result = "none"
    /\ raised = "none"

NextBin ==
    \/ parse_from_bin_entry
    \/ LoopParse
    \/ LoopBreak
    \/ Return

SpecBin == InitBin /\ [][NextBin]_vars

----------------------------------------------------------------------------
(* The targets of SpecLists: parse_small_bins_from_malloc_state and        *)
(* parse_large_bins_from_malloc_state (bin_parser.py, lines 31-63) on a    *)
(* malloc state whose bins start anywhere, over every memory of chunks.    *)

\* the head of the first small bin, which a chunk may point back to
FirstSmallHead(p) == bin_entry_address(MainArena, 2, p) - 2 * p

ListCells(p) ==
    {Unreadable} \cup
    {[ok |-> TRUE, fd |-> a, bk |-> 0] : a \in ChunkAddrs \cup {FirstSmallHead(p)}}

\* the entries of a list of bins: pick[k] is 0 for an empty bin, whose fd is
\* its own head, or the number of the first chunk of the bin
ListEntries(sel, p, pick) ==
    [k \in DOMAIN pick |->
        LET a == bin_entry_address(MainArena,
                     IF sel = "small" THEN 1 + k ELSE 1 + NSmallBins + k, p)
        IN BinEntry(sel, a, IF pick[k] = 0 THEN a - 2 * p ELSE ChunkAddr(pick[k]))]

ListLen(sel) == IF sel = "small" THEN NSmallBins ELSE NLargeBins

\* lines 41-46, 58-63: the call, up to the first _parse_from_bin_entry
parse_bins_from_malloc_state ==
    /\ pc = "idle"
    /\ op = "none"
    /\ arena_index' = -1
    /\ \E sel \in {"small", "large"} :
         \E pick \in [1..ListLen(sel) -> 0..NChunks] :
           LET es == ListEntries(sel, P, pick)
               ms == IF sel = "small"
                     THEN [MallocState(MainArena, ring, P, "empty")
                               EXCEPT !.small_bins = es]
                     ELSE [MallocState(MainArena, ring, P, "empty")
                               EXCEPT !.large_bins = es]
           IN StartWalk("parse_" \o sel \o "_bins_from_malloc_state", <<ms>>,
                        EntriesOf(sel, ms))
    /\ UNCHANGED facade

InitLists ==
    /\ P \in PointerSizes
    /\ libc = 31
    /\ mem \in [ChunkAddrs -> ListCells(P)]
    /\ ring = [a \in {MainArena} |-> MainArena]
    /\ binsel = "none"
    /\ heap_raw = <<>>
    /\ constructed = FALSE
    /\ tcaches_enabled = FALSE
    /\ tcache_parser = "none"
    /\ pc = "idle"
    /\ op = "none"
    /\ arena_index = -1
    /\ todo = <<>>
    /\ bins = <<>>
    /\ bin_entry = NoEntry
    /\ chunks = <<>>
    /\ addresses = <<>>
    /\ current_address = 0
    /\ reads = <<>>
    /\ malloc_states = <<>>
    /\ result = "none"
    /\ raised = "none"

NextLists ==
    \/ parse_bins_from_malloc_state
    \/ LoopParse
    \/ LoopBreak
    \/ Return

SpecLists == InitLists /\ [][NextLists]_vars

----------------------------------------------------------------------------
(* The targets of SpecBk: the walk of one bin entry over every memory of   *)
(* chunks whose bk pointers are right, wrong or dangling.                  *)

\* a chunk's bk holds the head of the bin, the first chunk or nothing
BkValues(p) == {BinAddr - 2 * p, ChunkAddr(1), 0}

BkCells(p) ==
    {Unreadable} \cup
    {[ok |-> TRUE, fd |-> a, bk |-> b] :
        a \in ChunkAddrs \cup {BinAddr - 2 * p}, b \in BkValues(p)}

InitBk ==
    /\ P \in PointerSizes
    /\ libc \in {31, 32}
    /\ mem \in [ChunkAddrs -> BkCells(P)]
    /\ ring = [a \in {MainArena} |-> MainArena]
    /\ binsel = "none"
    /\ heap_raw = <<>>
    /\ constructed = FALSE
    /\ tcaches_enabled = FALSE
    /\ tcache_parser = "none"
    /\ pc = "idle"
    /\ op = "none"
    /\ arena_index = -1
    /\ todo = <<>>
    /\ bins = <<>>
    /\ bin_entry = NoEntry
    /\ chunks = <<>>
    /\ addresses = <<>>
    /\ current_address = 0
    /\ reads = <<>>
    /\ malloc_states = <<>>
    /\ result = "none"
    /\ raised = "none"

NextBk ==
    \/ parse_from_bin_entry
    \/ LoopParse
    \/ LoopBreak
    \/ Return

SpecBk == InitBk /\ [][NextBk]_vars

----------------------------------------------------------------------------
(* The targets of SpecEmpty: parse_unsorted_bin_from_malloc_state,         *)
(* parse_small_bins_from_malloc_state and                                  *)
(* parse_large_bins_from_malloc_state (bin_parser.py, lines 19-63) on the  *)
(* main arena, whose bins are empty or start at the first chunk. The       *)
(* malloc state handed to the parser gives as the address of a bin entry   *)
(* either the location of the bin's (fd, bk) pair or that location minus   *)
(* 2P.                                                                     *)

\* the number, from 1, of the k-th bin of a kind among the bins of the arena
BinIndex(sel, k) ==
    CASE sel = "unsorted" -> 1
      [] sel = "small" -> 1 + k
      [] OTHER -> 1 + NSmallBins + k

\* the location of the (fd, bk) pair of bin i of the main arena
PairAt(i, p) == MainArena + BinsOffset + (i - 1) * 2 * p

\* the heads of the bins: the head of bin i is 2P below its pair, so that
\* its fd field is the fd cell of the pair
Heads(p) == {PairAt(i, p) - 2 * p : i \in 1..(1 + NSmallBins + NLargeBins)}

\* glibc's empty state: the fd and bk cells of the pair of every bin hold the
\* address of the pair minus 2P, the head itself. The chunks point to chunks.
EmptyCells == {Unreadable} \cup {[ok |-> TRUE, fd |-> a, bk |-> 0] : a \in ChunkAddrs}

EmptyArenaMems(p) ==
    {[a \in Heads(p) \cup ChunkAddrs |->
         IF a \in Heads(p) THEN [ok |-> TRUE, fd |-> a, bk |-> a] ELSE m[a]] :
     m \in [ChunkAddrs -> EmptyCells]}

\* the entry of a bin: pick is 0 for a bin in the empty state, whose fd is
\* the pair minus 2P, or the number of the first chunk of the bin
EntryOfBin(sel, k, p, conv, pick) ==
    LET pair == PairAt(BinIndex(sel, k), p)
    IN BinEntry(sel,
                IF conv = "pair" THEN pair ELSE pair - 2 * p,
                IF pick = 0 THEN pair - 2 * p ELSE ChunkAddr(pick))

\* the bins of a list that are not in the empty state
Picks(sel) ==
    [1..(CASE sel = "unsorted" -> 1
           [] sel = "small" -> NSmallBins
           [] OTHER -> NLargeBins) -> 0..1]

\* lines 29, 41-46, 58-63: the call, up to the first _parse_from_bin_entry
parse_bins_of_arena ==
    /\ pc = "idle"
    /\ op = "none"
    /\ arena_index' = -1
    /\ \E sel \in {"unsorted", "small", "large"}, conv \in {"pair", "pair_minus_2P"} :
         \E pick \in Picks(sel) :
           LET es == [k \in DOMAIN pick |-> EntryOfBin(sel, k, P, conv, pick[k])]
               ms == [address |-> MainArena,
                      next |-> ring[MainArena],
                      unsorted_bin |->
                          IF sel = "unsorted" THEN es[1]
                          ELSE EntryOfBin("unsorted", 1, P, conv, 0),
                      small_bins |->
                          IF sel = "small" THEN es
                          ELSE [k \in 1..NSmallBins |->
                                   EntryOfBin("small", k, P, conv, 0)],
                      large_bins |->
                          IF sel = "large" THEN es
                          ELSE [k \in 1..NLargeBins |->
                                   EntryOfBin("large", k, P, conv, 0)]]
           IN StartWalk("parse_" \o sel \o
                            (IF sel = "unsorted" THEN "_bin" ELSE "_bins") \o
                            "_from_malloc_state",
                        <<ms>>, EntriesOf(sel, ms))
    /\ UNCHANGED facade

InitEmpty ==
    /\ P \in PointerSizes
    /\ libc \in {31, 32}
    /\ mem \in EmptyArenaMems(P)
    /\ ring = [a \in {MainArena} |-> MainArena]
    /\ binsel = "none"
    /\ heap_raw = <<>>
    /\ constructed = FALSE
    /\ tcaches_enabled = FALSE
    /\ tcache_parser = "none"
    /\ pc = "idle"
    /\ op = "none"
    /\ arena_index = -1
    /\ todo = <<>>
    /\ bins = <<>>
    /\ bin_entry = NoEntry
    /\ chunks = <<>>
    /\ addresses = <<>>
    /\ current_address = 0
    /\ reads = <<>>
    /\ malloc_states = <<>>
    /\ result = "none"
    /\ raised = "none"

NextEmpty ==
    \/ parse_bins_of_arena
    \/ LoopParse
    \/ LoopBreak
    \/ Return

SpecEmpty == InitEmpty /\ [][NextEmpty]_vars

----------------------------------------------------------------------------
(* The targets of SpecLive: the walk of one bin entry in a process that    *)
(* goes on running, and rewrites the fd of its chunks between the reads of *)
(* the walk.                                                               *)

LiveCells(p) ==
    {Unreadable} \cup
    {[ok |-> TRUE, fd |-> a, bk |-> 0] : a \in ChunkAddrs \cup {BinAddr - 2 * p}}

\* the target writes the fd of one of its chunks while the loop of lines
\* 70-80 is between two reads
TargetWrites ==
    /\ pc = "loop"
    /\ \E a \in DOMAIN mem :
         \E cell \in LiveCells(P) :
           /\ mem[a].ok
           /\ cell.ok
           /\ cell # mem[a]
           /\ mem' = [mem EXCEPT ![a] = cell]
    /\ UNCHANGED <<P, libc, ring, binsel, heap_raw, facade, walk, pc, op, arena_index,
                   todo, bins, malloc_states, reads, result, raised>>

InitLive ==
    /\ P \in PointerSizes
    /\ libc \in {31, 32}
    /\ mem \in [ChunkAddrs -> LiveCells(P)]
    /\ ring = [a \in {MainArena} |-> MainArena]
    /\ binsel = "none"
    /\ heap_raw = <<>>
    /\ constructed = FALSE
    /\ tcaches_enabled = FALSE
    /\ tcache_parser = "none"
    /\ pc = "idle"
    /\ op = "none"
    /\ arena_index = -1
    /\ todo = <<>>
    /\ bins = <<>>
    /\ bin_entry = NoEntry
    /\ chunks = <<>>
    /\ addresses = <<>>
    /\ current_address = 0
    /\ reads = <<>>
    /\ malloc_states = <<>>
    /\ result = "none"
    /\ raised = "none"

NextLive ==
    \/ parse_from_bin_entry
    \/ LoopParse
    \/ LoopBreak
    \/ Return
    \/ TargetWrites

\* the loop of the walk is a running sequential program: it takes its next
\* step, however often the target writes
SpecLive ==
    InitLive /\ [][NextLive]_vars /\ WF_vars(LoopParse \/ LoopBreak \/ Return)

----------------------------------------------------------------------------
(* Properties of the bin walk, checked under SpecBin.                      *)

\* a call of _parse_from_bin_entry has returned
WalkDone == pc = "idle" /\ op = "_parse_from_bin_entry"

NoDuplicates(seq) == \A i, j \in 1..Len(seq) : i # j => seq[i] # seq[j]

ChunkAddresses(cs) == [i \in 1..Len(cs) |-> cs[i].address]

\* the i-th address (from 0) of the fd chain of a bin in memory m
RECURSIVE chain_address(_, _, _)
chain_address(m, fd, i) ==
    IF i = 0 THEN fd
    ELSE LET a == chain_address(m, fd, i - 1)
         IN IF Readable(m, a) THEN m[a].fd ELSE a

\* the distinct addresses on the fd chain of a bin: the chain is followed
\* until it repeats an address or meets one that cannot be read
RECURSIVE chain_set(_, _, _)
chain_set(m, a, seen) ==
    IF a \in seen THEN seen
    ELSE IF ~Readable(m, a) THEN seen \cup {a}
    ELSE chain_set(m, m[a].fd, seen \cup {a})

\* C1: the walk of a bin entry (unsorted, small or large) whose fd equals
\* bin_entry.address - 2P parses no chunk and returns a bin without chunks,
\* for P = 4 and P = 8.
C1_EmptyBin ==
    /\ (pc # "idle" /\ bin_entry.fd = bin_entry.address - 2 * P)
           => (reads = <<>> /\ chunks = <<>>)
    /\ (WalkDone /\ result.bin_entry.fd = result.bin_entry.address - 2 * P)
           => (reads = <<>> /\ Len(result.malloc_chunks) = 0)

C1_Witness ==
    /\ WalkDone
    /\ P = 4
    /\ result.bin_entry.kind = "large"
    /\ result.bin_entry.fd = result.bin_entry.address - 8
    /\ mem[result.bin_entry.fd].ok
    /\ result.malloc_chunks = <<>>

\* C2: when the read of the k-th address of the fd chain fails after the k
\* earlier reads succeeded, the walk raises nothing and returns exactly the
\* chunks of the k earlier addresses, in chain order.
C2_ReadFailurePrefix ==
    WalkDone =>
        \A k \in 0..(NChunks + 1) :
            LET fd == result.bin_entry.fd
                H == result.bin_entry.address - 2 * P
            IN (/\ \A i \in 0..k : chain_address(mem, fd, i) # H
                /\ \A i \in 0..(k - 1) : Readable(mem, chain_address(mem, fd, i))
                /\ ~Readable(mem, chain_address(mem, fd, k)))
               => /\ raised = "none"
                  /\ result.malloc_chunks =
                         [i \in 1..k |->
                             parse_from_address(mem, P, chain_address(mem, fd, i - 1))]

C2_Witness ==
    /\ WalkDone
    /\ Len(result.malloc_chunks) = 2
    /\ Len(reads) = 3
    /\ ~Readable(mem, reads[3])
    /\ result.malloc_chunks[2].fd = reads[3]

\* C3: for every memory image the walk parses at most once per address: no
\* address is read twice, the addresses read are addresses of the fd chain,
\* no chunk address is returned twice, and each iteration of the loop adds
\* one address to the visited ones, which bounds the loop by the number of
\* distinct addresses of the chain.
C3_BoundedWalk ==
    /\ [](op = "_parse_from_bin_entry" =>
            LET on_chain == chain_set(mem, bin_entry.fd, {})
            IN /\ NoDuplicates(reads)
               /\ NoDuplicates(addresses)
               /\ Range(reads) \subseteq on_chain
               /\ Len(reads) <= Cardinality(on_chain)
               /\ NoDuplicates(ChunkAddresses(chunks))
               /\ Len(chunks) <= Cardinality(on_chain)
               /\ (pc = "idle" => result.malloc_chunks = chunks))
    /\ [][(pc = "loop" /\ pc' # "idle")
             => (/\ Len(addresses') = Len(addresses) + 1
                 /\ Len(reads') = Len(reads) + 1)]_vars

\* a walk that ended on a cycle of two chunks that does not pass by the head
C3_Witness ==
    /\ WalkDone
    /\ Len(result.malloc_chunks) = 2
    /\ result.malloc_chunks[2].fd = result.malloc_chunks[1].address
    /\ result.bin_entry.address - 2 * P \notin Range(reads)

\* C8 (as stated): on 64-bit, with bin_entry.fd = 0xc000 and a readable chunk
\* at 0xc000 whose fd equals bin_entry.address, the parsed bin contains
\* exactly one chunk, the one at 0xc000.
C8_Original ==
    (/\ WalkDone
     /\ P = 8
     /\ result.bin_entry.fd = ChunkBase
     /\ Readable(mem, ChunkBase)
     /\ mem[ChunkBase].fd = result.bin_entry.address)
        => /\ Len(result.malloc_chunks) = 1
           /\ result.malloc_chunks[1].address = ChunkBase

\* C8 (amended): on 64-bit, with bin_entry.fd = 0xc000 and a readable chunk
\* at 0xc000, the first chunk of the parsed bin is the one at 0xc000. When the
\* fd of that chunk is the sentinel bin_entry.address - 0x10 the bin contains
\* exactly that chunk. When it is bin_entry.address the walk goes on to parse
\* at bin_entry.address, and the bin contains exactly one chunk only when
\* that read fails.
C8_OneChunk ==
    (/\ WalkDone
     /\ P = 8
     /\ result.bin_entry.fd = ChunkBase
     /\ Readable(mem, ChunkBase))
        => LET cs == result.malloc_chunks
               address == result.bin_entry.address
           IN /\ Len(cs) >= 1
              /\ cs[1].address = ChunkBase
              /\ mem[ChunkBase].fd = address - 16 => (Len(cs) = 1 /\ Len(reads) = 1)
              /\ mem[ChunkBase].fd = address =>
                     /\ Len(reads) >= 2
                     /\ reads[2] = address
                     /\ (Len(cs) = 1 <=> ~Readable(mem, address))
                     /\ (Len(cs) >= 2 => cs[2].address = address)

C8_Witness ==
    /\ WalkDone
    /\ P = 8
    /\ result.bin_entry.kind = "unsorted"
    /\ result.bin_entry.fd = ChunkBase
    /\ Readable(mem, ChunkBase)
    /\ mem[ChunkBase].fd = result.bin_entry.address - 16
    /\ Readable(mem, result.bin_entry.address - 16)
    /\ Len(result.malloc_chunks) = 1

\* C10: for every libc version the walk of an unsorted, small or large bin
\* advances with the raw fd of the chunk just parsed, never with its
\* fd_demangled, and the bin it returns is not flagged safe_link.
C10_RawFd ==
    op = "_parse_from_bin_entry" =>
        /\ (pc = "loop" /\ chunks # <<>>)
               => current_address = chunks[Len(chunks)].fd
        /\ \A i \in 1..(Len(chunks) - 1) : chunks[i + 1].address = chunks[i].fd
        /\ chunks # <<>> => chunks[1].address = bin_entry.fd
        /\ pc = "idle" => (result.safe_link = FALSE /\ result.malloc_chunks = chunks)

C10_Witness ==
    /\ WalkDone
    /\ libc >= 32
    /\ Len(result.malloc_chunks) >= 2
    /\ result.malloc_chunks[1].fd_demangled # result.malloc_chunks[1].fd
    /\ Readable(mem, result.malloc_chunks[1].fd_demangled)
    /\ result.malloc_chunks[2].address = result.malloc_chunks[1].fd
    /\ result.safe_link = FALSE

----------------------------------------------------------------------------
(* Properties of the facade, checked under SpecFacade.                     *)

Returned(o) == pc = "idle" /\ op = o /\ raised = "none"

\* the malloc state addresses reached from the main arena in at most n steps
RECURSIVE reached(_, _)
reached(S, n) ==
    IF n = 0 THEN S ELSE reached(S \cup {ring[a] : a \in S}, n - 1)

RingOfMain == reached({MainArena}, NArenas)

\* C4: all_arenas_malloc_states() starts at the main arena, follows `next`,
\* returns every malloc state of the ring exactly once and stops at the first
\* `next` already observed, also when that is not the main arena;
\* arenas_count() is the number of distinct states: 1 when main.next is main,
\* 2 for the ring main -> A1 -> main.
C4_ArenaRing ==
    /\ Returned("all_arenas_malloc_states") =>
           LET n == Len(result)
               seen == {result[k].address : k \in 1..n}
           IN /\ n >= 1
              /\ result[1].address = MainArena
              /\ \A k \in 1..n : result[k].next = ring[result[k].address]
              /\ \A k \in 1..(n - 1) : result[k + 1].address = result[k].next
              /\ \A j, k \in 1..n : j # k => result[j].address # result[k].address
              /\ \A k \in 1..(n - 1) :
                     result[k].next \notin {result[j].address : j \in 1..k}
              /\ result[n].next \in seen
              /\ seen = RingOfMain
    /\ pc = "idle" /\ op = "arenas_count" =>
           /\ raised = "none"
           /\ result = Cardinality(RingOfMain)
           /\ ring[MainArena] = MainArena => result = 1
           /\ (ring[MainArena] = ArenaAddr(1) /\ ring[ArenaAddr(1)] = MainArena)
                  => result = 2

\* two arenas counted on a cycle that does not return to the main arena
C4_Witness ==
    /\ Returned("arenas_count")
    /\ result = 2
    /\ ring[MainArena] = ArenaAddr(1)
    /\ ring[ArenaAddr(1)] = ArenaAddr(1)

FirstChunkSize == chunk_size(heap_raw[1])

\* C5 (as stated): for libc >= 2.26, tcaches_enabled is True exactly when the
\* size of the first chunk of the main heap equals 2P*64 + 0x50.
C5_Original ==
    (constructed /\ libc >= 26) =>
        (tcaches_enabled <=> FirstChunkSize = 2 * P * 64 + 80)

\* C5 (amended): for libc >= 2.26 and P in {4, 8}, tcaches_enabled is True
\* exactly when the size of the first chunk of the main heap equals
\* P*64 + 0x50, and False for every other size, among them the sizes next to
\* that value and 2P*64 + 0x50.
C5_TcacheDetection ==
    (constructed /\ libc >= 26) =>
        /\ heap_raw # <<>>
        /\ tcaches_enabled <=> FirstChunkSize = P * 64 + 80
        /\ tcache_parser = IF tcaches_enabled THEN "enabled" ELSE "disabled"

C5_Witness ==
    /\ Returned("__init__")
    /\ constructed
    /\ libc >= 26
    /\ P = 8
    /\ FirstChunkSize = 592
    /\ tcaches_enabled

\* C6: with a libc lower than 2.26 the construction completes with
\* tcaches_enabled False whatever the heap contains, and tcaches(arena_index),
\* for every arena_index, and all_arenas_tcaches() fail with NoTcacheError;
\* when tcaches_enabled is True neither of them fails with NoTcacheError.
C6_NoTcacheError ==
    /\ (pc = "idle" /\ op # "none" /\ libc < 26) => (constructed /\ ~tcaches_enabled)
    /\ (pc = "idle" /\ op \in {"tcaches", "all_arenas_tcaches"}) =>
           /\ libc < 26 => raised = "NoTcacheError"
           /\ ~tcaches_enabled => raised = "NoTcacheError"
           /\ tcaches_enabled => raised # "NoTcacheError"

\* tcaches() fails on an old libc although the first chunk has the size of a
\* tcache
C6_Witness ==
    /\ pc = "idle"
    /\ op = "tcaches"
    /\ libc < 26
    /\ heap_raw # <<>>
    /\ FirstChunkSize = P * 64 + 80
    /\ raised = "NoTcacheError"

IsArena(a) ==
    /\ a.kind = "Arena"
    /\ a.malloc_state.address \in RingOfMain
    /\ a.heap.kind = "Heap"
    /\ a.heap.arena = a.malloc_state.address
    /\ a.fast_bins.kind = "FastBins"
    /\ a.unsorted_bin.bin_entry = a.malloc_state.unsorted_bin
    /\ Len(a.small_bins) = NSmallBins
    /\ \A k \in 1..NSmallBins :
           a.small_bins[k].bin_entry = a.malloc_state.small_bins[k]
    /\ Len(a.large_bins) = NLargeBins
    /\ \A k \in 1..NLargeBins :
           a.large_bins[k].bin_entry = a.malloc_state.large_bins[k]

\* C7: with the disabled tcache parser wired in, arena(arena_index) and
\* all_arenas() do not fail with NoTcacheError: they return arenas with the
\* malloc state, the heap, the fast bins, the unsorted bin, the small bins and
\* the large bins, and without tcache.
C7_ArenaWithoutTcache ==
    (pc = "idle" /\ tcache_parser = "disabled") =>
        /\ op = "arena" =>
               /\ raised \in {"none", "IndexError"}
               /\ raised = "none" => (IsArena(result) /\ result.tcaches.kind = "None")
        /\ op = "all_arenas" =>
               /\ raised = "none"
               /\ Len(result) = Cardinality(RingOfMain)
               /\ \A k \in 1..Len(result) :
                      IsArena(result[k]) /\ result[k].tcaches.kind = "None"

C7_Witness ==
    /\ Returned("arena")
    /\ tcache_parser = "disabled"
    /\ libc >= 26
    /\ result.kind = "Arena"
    /\ result.tcaches.kind = "None"
    /\ Len(result.unsorted_bin.malloc_chunks) = 1

\* C9: no step of a facade call or of a bin walk changes the target: its
\* memory, the ring of malloc states, the bins and the heap stay as they
\* were, also in the calls that end with a read failure or NoTcacheError.
C9_TargetUnchanged ==
    [][/\ mem' = mem
       /\ ring' = ring
       /\ binsel' = binsel
       /\ heap_raw' = heap_raw
       /\ P' = P
       /\ libc' = libc]_vars

\* a call that met a read failure has returned
C9_Witness ==
    /\ Returned("all_arenas")
    /\ reads # <<>>
    /\ ~Readable(mem, reads[Len(reads)])
    /\ mem = FacadeMem(P)

\* C11 (as stated): for every fastbin index k in 0..9 the chunks_size of the
\* fast bin is 16 + k*16 on 64-bit and 8 + k*8 on 32-bit, and this value
\* equals 2P*(k+2).
C11_Original ==
    Returned("fast_bins") =>
        \A k \in 0..9 :
            /\ P = 8 => result.bins[k + 1].chunks_size = 16 + k * 16
            /\ P = 4 => result.bins[k + 1].chunks_size = 8 + k * 8
            /\ result.bins[k + 1].chunks_size = 2 * P * (k + 2)

\* C11 (amended): for every fastbin index k in 0..9 the chunks_size of the
\* fast bin is 32 + k*16 on 64-bit and 16 + k*8 on 32-bit, which is
\* 2P*(k+2); on 64-bit the fast bin of index 4 has chunks_size 0x60.
C11_FastBinSizes ==
    Returned("fast_bins") =>
        /\ Len(result.bins) = 10
        /\ \A k \in 0..9 :
               /\ P = 8 => result.bins[k + 1].chunks_size = 32 + k * 16
               /\ P = 4 => result.bins[k + 1].chunks_size = 16 + k * 8
               /\ result.bins[k + 1].chunks_size = 2 * P * (k + 2)
        /\ P = 8 => result.bins[5].chunks_size = 96

C11_Witness ==
    /\ Returned("fast_bins")
    /\ P = 8
    /\ result.bins[5].chunks_size = 96
    /\ result.bins[1].chunks_size = 32
    /\ result.bins[10].chunks_size = 176

----------------------------------------------------------------------------
(* Properties of the lists of bins, checked under SpecLists.               *)

\* the chunks on the fd chain from address a: the chain ends at an address
\* of seen, at an address met before, or at one that cannot be read
RECURSIVE fd_walk(_, _, _, _)
fd_walk(m, p, a, seen) ==
    IF a \in seen \/ ~Readable(m, a) THEN <<>>
    ELSE <<parse_from_address(m, p, a)>> \o fd_walk(m, p, m[a].fd, seen \cup {a})

\* the bin of an entry walked alone in memory m
bin_alone(m, p, entry) ==
    BinFactory_create(entry, fd_walk(m, p, entry.fd, {entry.address - 2 * p}))

ListOp == op \in {"parse_small_bins_from_malloc_state",
                  "parse_large_bins_from_malloc_state"}

\* the bin entries of the malloc state the call was given
ListGiven ==
    IF op = "parse_small_bins_from_malloc_state"
    THEN malloc_states[1].small_bins ELSE malloc_states[1].large_bins

\* C12: parse_small_bins_from_malloc_state and
\* parse_large_bins_from_malloc_state return exactly one bin per bin entry of
\* the malloc state, in entry order; a read failure or a cycle met in the walk
\* of one bin does not abort the call, and every bin holds the chunks its
\* entry has when walked alone, whatever the other bins of the list hold.
C12_Containment ==
    ListOp =>
        /\ raised = "none"
        /\ Len(bins) <= Len(ListGiven)
        /\ \A k \in 1..Len(bins) : bins[k] = bin_alone(mem, P, ListGiven[k])
        /\ pc = "idle" =>
               /\ Len(result) = Len(ListGiven)
               /\ \A k \in 1..Len(result) :
                      /\ result[k].bin_entry = ListGiven[k]
                      /\ result[k] = bin_alone(mem, P, ListGiven[k])

\* a call whose first bin ends at a read failure after one chunk, and whose
\* second bin starts at that same chunk and holds it too
C12_Witness ==
    /\ ListOp
    /\ pc = "idle"
    /\ Len(result[1].malloc_chunks) = 1
    /\ ~Readable(mem, result[1].malloc_chunks[1].fd)
    /\ result[1].malloc_chunks[1].fd # FirstSmallHead(P)
    /\ result[2].bin_entry.fd = result[1].bin_entry.fd
    /\ Len(result[2].malloc_chunks) = 1

----------------------------------------------------------------------------
(* Properties of the walk under any bk pointers, checked under SpecBk.     *)

\* memory m with every bk pointer erased
erase_bk(m) == [a \in DOMAIN m |-> [m[a] EXCEPT !.bk = 0]]

\* C13: whatever the memory holds, the first chunk returned by the walk of a
\* bin entry is the one at bin_entry.fd and each following chunk is the one
\* at the raw fd of the chunk before it; the head H = bin_entry.address - 2P
\* is never returned; the list ends only where the next address is H, an
\* address already visited or an address that cannot be read; and the chunks
\* returned are those of the fd chain alone, the same when every bk pointer is
\* erased.
C13_WalkShape ==
    WalkDone =>
        LET cs == result.malloc_chunks
            e == result.bin_entry
            H == e.address - 2 * P
            nxt == IF cs = <<>> THEN e.fd ELSE cs[Len(cs)].fd
        IN /\ cs # <<>> => cs[1].address = e.fd
           /\ \A i \in 2..Len(cs) : cs[i].address = cs[i - 1].fd
           /\ \A i \in 1..Len(cs) : cs[i].address # H /\ cs[i].fd = mem[cs[i].address].fd
           /\ \/ nxt = H
              \/ nxt \in Range(ChunkAddresses(cs))
              \/ ~Readable(mem, nxt)
           /\ ChunkAddresses(cs) = ChunkAddresses(fd_walk(erase_bk(mem), P, e.fd, {H}))

\* a bin of two chunks that ends at its head, whose second chunk has a bk
\* that does not point back to the first one
C13_Witness ==
    /\ WalkDone
    /\ Len(result.malloc_chunks) = 2
    /\ result.malloc_chunks[2].fd = result.bin_entry.address - 2 * P
    /\ result.malloc_chunks[2].bk # result.malloc_chunks[1].address
    /\ result.malloc_chunks[1].bk = 0

----------------------------------------------------------------------------
(* Properties of the walk in a live target, checked under SpecLive.        *)

\* C14: when the target rewrites the fd pointers of its chunks between the
\* reads of a walk, the walk still ends; it never parses twice at one
\* address, so it parses at most once per address of the address space; and
\* the bin it returns has no chunk address twice and no chunk at the head
\* H = bin_entry.address - 2P.
C14_LiveWalk ==
    /\ [](op = "_parse_from_bin_entry" =>
            LET H == bin_entry.address - 2 * P
            IN /\ NoDuplicates(reads)
               /\ Len(reads) <= Cardinality(Addrs(P)) - 1
               /\ NoDuplicates(ChunkAddresses(chunks))
               /\ H \notin Range(ChunkAddresses(chunks))
               /\ H \notin Range(reads)
               /\ pc = "idle" =>
                      /\ NoDuplicates(ChunkAddresses(result.malloc_chunks))
                      /\ H \notin Range(ChunkAddresses(result.malloc_chunks)))
    /\ (pc = "loop") ~> (pc = "idle")

\* a walk that returned two chunks although the target had rewritten the fd
\* of the first one, after it was read, to point at the first chunk itself
C14_Witness ==
    /\ WalkDone
    /\ Len(result.malloc_chunks) = 2
    /\ mem[result.malloc_chunks[1].address].fd = result.malloc_chunks[1].address
    /\ result.malloc_chunks[1].fd = result.malloc_chunks[2].address

----------------------------------------------------------------------------
(* Properties of the empty arena, checked under SpecEmpty.                 *)

EmptyOp == op \in {"parse_unsorted_bin_from_malloc_state",
                   "parse_small_bins_from_malloc_state",
                   "parse_large_bins_from_malloc_state"}

\* the bins a call has returned: the unsorted bin, or a list of bins
Returned_bins ==
    IF op = "parse_unsorted_bin_from_malloc_state" THEN <<result>> ELSE result

\* the pair of the bin of an entry, by the address the entry was given
PairOf(entry) ==
    IF malloc_states[1].unsorted_bin.address = PairAt(1, P)
    THEN entry.address ELSE entry.address + 2 * P

\* the bin of the entry is in glibc's empty state
InEmptyState(entry) ==
    /\ entry.fd = PairOf(entry) - 2 * P
    /\ mem[entry.fd].fd = entry.fd
    /\ mem[entry.fd].bk = entry.fd

\* C15 (as stated): when every bin is in the empty state and BinEntry.address
\* is the location of the pair minus 2P, the walk returns zero chunks for the
\* unsorted bin and for every small and large bin.
C15_Original ==
    (/\ EmptyOp
     /\ pc = "idle"
     /\ \A k \in 1..Len(Returned_bins) :
            /\ InEmptyState(Returned_bins[k].bin_entry)
            /\ Returned_bins[k].bin_entry.address = PairOf(Returned_bins[k].bin_entry) - 2 * P)
        => \A k \in 1..Len(Returned_bins) : Len(Returned_bins[k].malloc_chunks) = 0

\* C15: a bin in glibc's empty state is returned with zero chunks, and
\* without a read, when BinEntry.address is the location of the bin's pair:
\* the sentinel bin_entry.address - 2P is then the head the fd cell points to.
\* When BinEntry.address is the location of the pair minus 2P, the sentinel
\* is 4P below the pair, the walk parses at the head and the bin is returned
\* with one chunk, the head itself. Both hold for the unsorted bin and for
\* every small and large bin.
C15_EmptyArena ==
    (EmptyOp /\ pc = "idle") =>
        \A k \in 1..Len(Returned_bins) :
            LET e == Returned_bins[k].bin_entry
            IN InEmptyState(e) =>
                   /\ e.address = PairOf(e) =>
                          /\ Len(Returned_bins[k].malloc_chunks) = 0
                          /\ e.fd \notin Range(reads)
                   /\ e.address = PairOf(e) - 2 * P =>
                          /\ Len(Returned_bins[k].malloc_chunks) = 1
                          /\ Returned_bins[k].malloc_chunks[1].address = e.address
                          /\ Returned_bins[k].malloc_chunks[1].fd = e.address

\* the small bins of an arena whose bins are all empty, returned without a
\* chunk and without a read from entries that hold the location of the pair
C15_Witness ==
    /\ op = "parse_small_bins_from_malloc_state"
    /\ pc = "idle"
    /\ reads = <<>>
    /\ Len(Returned_bins) = NSmallBins
    /\ \A k \in 1..Len(Returned_bins) :
           /\ InEmptyState(Returned_bins[k].bin_entry)
           /\ Returned_bins[k].bin_entry.address = PairOf(Returned_bins[k].bin_entry)
           /\ Returned_bins[k].bin_entry.address = PairAt(1 + k, P)
           /\ Len(Returned_bins[k].malloc_chunks) = 0

----------------------------------------------------------------------------
(* The size of the tcache detection, checked under SpecFacade.             *)

\* C16 (as stated): the size the first chunk of the main heap is compared
\* with in the tcache detection is tcache_chunk_size(TCACHE_MAX_BINS), with
\* tcache_chunk_size(i) = ((i * 2P) + MINSIZE + (2P - 1)) & ~(2P - 1).
C16_Original ==
    (constructed /\ libc >= 26) =>
        (tcaches_enabled <=>
             FirstChunkSize = glibc_tcache_chunk_size(TCACHE_MAX_BINS, P))

\* C16: the size the first chunk of the main heap is compared with is
\* P*64 + 0x50, that is 0x250 for P = 8 and 0x150 for P = 4. It is smaller
\* than tcache_chunk_size(TCACHE_MAX_BINS) = 132P (0x420 and 0x210): a first
\* chunk of that size leaves the tcaches disabled, and the tcaches are enabled
\* only by a first chunk of size P*64 + 0x50.
C16_ComparedSize ==
    (constructed /\ libc >= 26) =>
        LET glibc == glibc_tcache_chunk_size(TCACHE_MAX_BINS, P)
        IN /\ glibc = 132 * P
           /\ P = 8 => glibc = 1056
           /\ P = 4 => glibc = 528
           /\ FirstChunkSize = glibc => ~tcaches_enabled
           /\ tcaches_enabled =>
                  /\ FirstChunkSize = P * 64 + 80
                  /\ FirstChunkSize < glibc
                  /\ P = 8 => FirstChunkSize = 592
                  /\ P = 4 => FirstChunkSize = 336
           /\ FirstChunkSize = P * 64 + 80 => tcaches_enabled

\* a facade built on glibc 2.26 or later whose first chunk has the size of
\* the chunks of tcache_chunk_size(TCACHE_MAX_BINS), with tcaches disabled
C16_Witness ==
    /\ constructed
    /\ libc >= 26
    /\ P = 8
    /\ FirstChunkSize = 1056
    /\ ~tcaches_enabled
    /\ Returned("all_arenas_heaps")
    /\ result[1].chunks[1].size = 1056

----------------------------------------------------------------------------
(* The tcache detection over time, checked under SpecHeapLive.             *)

\* C17: tcaches_enabled and the tcache parser wired in are set by the
\* constructor, from the first chunk of the main heap it reads, and no step
\* after it changes them, whatever facade operation is called and whatever
\* the main heap becomes: tcaches() and all_arenas_tcaches() fail with
\* NoTcacheError exactly when the constructor found the tcaches disabled.
C17_FixedAtConstruction ==
    /\ [][constructed =>
              /\ constructed'
              /\ tcaches_enabled' = tcaches_enabled
              /\ tcache_parser' = tcache_parser]_vars
    /\ [][(~constructed /\ constructed') =>
              /\ tcaches_enabled' =
                     (libc >= 26 /\ FirstChunkSize = tcache_chunk_size(P))
              /\ tcache_parser' = IF tcaches_enabled' THEN "enabled" ELSE "disabled"]_vars
    /\ []((pc = "idle" /\ op \in {"tcaches", "all_arenas_tcaches"}) =>
              (raised = "NoTcacheError" <=> ~tcaches_enabled))

\* tcaches() returns the tcaches of the main arena although the first chunk
\* of the main heap has no longer the size that enabled them
C17_Witness ==
    /\ Returned("tcaches")
    /\ arena_index = 0
    /\ tcaches_enabled
    /\ heap_raw # <<>>
    /\ FirstChunkSize # tcache_chunk_size(P)

----------------------------------------------------------------------------
(* The per-arena accessors and their all_arenas forms, checked under       *)
(* SpecFacade, whose operations leave the target as it is.                 *)

\* the address of the k-th malloc state (from 1) on the ring of the main one
RECURSIVE nth_arena(_)
nth_arena(k) == IF k = 1 THEN MainArena ELSE ring[nth_arena(k - 1)]

\* the number of arenas of the target
CountOfArenas == Cardinality(RingOfMain)

nth_malloc_state(k) == MallocState(nth_arena(k), ring, P, binsel)

\* the bins of a list of entries, each walked alone
bins_alone(entries) == [j \in 1..Len(entries) |-> bin_alone(mem, P, entries[j])]

\* what the all_arenas form of an accessor returns, element by element
ElementOf(o, k) ==
    LET ms == nth_malloc_state(k)
    IN CASE o = "heap" -> HeapParser_parse(ms, heap_raw)
         [] o = "unsorted_bin" -> bin_alone(mem, P, ms.unsorted_bin)
         [] o = "small_bins" -> bins_alone(ms.small_bins)
         [] o = "large_bins" -> bins_alone(ms.large_bins)
         [] o = "fast_bins" -> FastBinParser_parse(ms)
         [] OTHER -> TcacheParser_parse(ms)

AllForm(o) ==
    CASE o = "heap" -> "all_arenas_heaps"
      [] o = "unsorted_bin" -> "all_arenas_unsorted_bins"
      [] OTHER -> "all_arenas_" \o o

Accessors == {"heap", "unsorted_bin", "small_bins", "large_bins", "fast_bins", "tcaches"}

\* C18: on a target that does not change, for every arena index i below
\* arenas_count(), heap(i), unsorted_bin(i), small_bins(i), large_bins(i),
\* fast_bins(i) and, when tcaches are enabled, tcaches(i) return the value
\* that is element i of the list their all_arenas form returns; each of these
\* lists has arenas_count() elements, its first one that of the main arena; a
\* per-arena accessor fails with IndexError exactly from arenas_count() on.
C18_PerArenaAgrees ==
    /\ Returned("arenas_count") => result = CountOfArenas
    /\ \A o \in Accessors :
           /\ Returned(o) =>
                  /\ arena_index < CountOfArenas
                  /\ result = ElementOf(o, arena_index + 1)
           /\ (pc = "idle" /\ op = o /\ raised = "IndexError") =>
                  arena_index >= CountOfArenas
           /\ Returned(AllForm(o)) =>
                  /\ Len(result) = CountOfArenas
                  /\ \A k \in 1..Len(result) : result[k] = ElementOf(o, k)
    /\ Returned("all_arenas_heaps") => result[1].arena = MainArena
    /\ Returned("all_arenas_fast_bins") => result[1].arena = MainArena
    /\ Returned("all_arenas_tcaches") => result[1].arena = MainArena
    /\ Returned("all_arenas_unsorted_bins") =>
           result[1].bin_entry.address = bin_entry_address(MainArena, 1, P)
    /\ Returned("all_arenas_small_bins") =>
           result[1][1].bin_entry.address = bin_entry_address(MainArena, 2, P)
    /\ Returned("all_arenas_large_bins") =>
           result[1][1].bin_entry.address =
               bin_entry_address(MainArena, 2 + NSmallBins, P)

\* the small bins of the second arena of a target with two arenas, each with
\* the chunk its entry points to
C18_Witness ==
    /\ Returned("small_bins")
    /\ arena_index = 1
    /\ CountOfArenas = 2
    /\ result[1].bin_entry.address = bin_entry_address(ArenaAddr(1), 2, P)
    /\ Len(result[1].malloc_chunks) = 1
    /\ result = ElementOf("small_bins", 2)
    /\ result # ElementOf("small_bins", 1)

----------------------------------------------------------------------------
(* The construction on a heap without chunks, checked under SpecFacade.    *)

\* C19: on libc >= 2.26 the construction of the facade always completes with
\* a boolean tcaches_enabled; when the heap of the main arena has no chunks,
\* tcaches_enabled is False and the constructor does not fail.
C19_Original ==
    (pc = "idle" /\ op = "__init__" /\ libc >= 26) =>
        /\ raised = "none"
        /\ constructed
        /\ tcaches_enabled \in BOOLEAN
        /\ heap_raw = <<>> => ~tcaches_enabled

====
